---- MODULE Spec2Model ----
(***************************************************************************)
(* Model of the PostgreSQL-backed user store of huberts90/restful-api       *)
(* (internal/storage/postgres.go) together with the users table it talks   *)
(* to (migrations/000001_create_users_table.up.sql).                       *)
(*                                                                         *)
(* CreateUser, GetUserByID, UpdateUser and DeleteUser each send exactly    *)
(* one SQL statement; PostgreSQL executes a statement atomically and the   *)
(* Go code around it only touches locals, so every interleaving of         *)
(* concurrent calls of these four is an ordering of their statements and   *)
(* each call is one action.  ListUsers runs four backend round trips       *)
(* (BEGIN, COUNT, page SELECT, COMMIT) and is modelled step by step, so    *)
(* that statements of other callers interleave with it.                    *)
(*                                                                         *)
(* Around the store stand its constructor NewPostgresStore with the        *)
(* connection handle it opens, the request bodies of package domain with   *)
(* their validation, and the HTTP handlers of internal/handler, which      *)
(* decode a request, call the store once and map its result to a response. *)
(***************************************************************************)
EXTENDS Integers, Sequences, FiniteSets, TLC

VARIABLES
    users,      \* the rows of table users
    seq,        \* last value handed out by the sequence behind id SERIAL
    now,        \* the database clock read by NOW()
    tx,         \* the ListUsers call in flight: its position and locals
    last,       \* the store call that has just returned, until its caller takes the results
    issued,     \* history: identities returned by successful CreateUser calls
    deleted,    \* history: identities removed by successful DeleteUser calls
    http,       \* the HTTP exchange the handler is serving
    db,         \* the *sql.DB handle of the process and what the constructor returned
    main        \* the position of func main of the API server

vars == <<users, seq, now, tx, last, issued, deleted, http, db, main>>

---------------------------------------------------------------------------
(* Bounds of the model *)

\* sequence values handed out (INSERT attempts) in one behaviour
MaxSeq == 3
\* ticks of the database clock
MaxTime == 1
\* largest page number a caller asks for
MaxPage == 2
\* width of a Go int, scaled down from 64 bits
IntBits == 16

\* ListUsers accepts 1 <= pageSize <= MaxPageSize
MaxPageSize == 100

Emails == {"a@x.io", "b@x.io"}
\* ListUsers is explored over tables of up to three rows
ListEmails == Emails \cup {"c@x.io"}
\* names given at creation and names supplied by updates
CreateFirstNames == {"Al"}
CreateLastNames == {"Doe"}
UpdateFirstNames == {"", "Bo"}
UpdateLastNames == {"", "Roe"}

IDs == -1 .. MaxSeq
Pages == -1 .. MaxPage
PageSizes == {0, 1, 2, MaxPageSize, MaxPageSize + 1}

UserCreates == [Email : Emails, FirstName : CreateFirstNames, LastName : CreateLastNames]
ListCreates == [Email : ListEmails, FirstName : CreateFirstNames, LastName : CreateLastNames]
UserUpdates == [Email : Emails \cup {""}, FirstName : UpdateFirstNames, LastName : UpdateLastNames]

---------------------------------------------------------------------------
(* Errors *)

\* raw errors of database/sql and lib/pq
NoError == [type |-> "nil", code |-> "", constraint |-> ""]
SqlErrNoRows == [type |-> "sql.ErrNoRows", code |-> "", constraint |-> ""]
SqlErrTxDone == [type |-> "sql.ErrTxDone", code |-> "", constraint |-> ""]
PqError(code, constraint) == [type |-> "pq.Error", code |-> code, constraint |-> constraint]
ConnError == [type |-> "driver.ErrBadConn", code |-> "", constraint |-> ""]
\* "sql: database is closed", the answer of database/sql on a handle after Close
SqlErrDBClosed == [type |-> "sql.errDBClosed", code |-> "", constraint |-> ""]

\* the sentinel errors of package storage; cause is what a sentinel wraps
Sentinel(name, cause) == [kind |-> name, cause |-> cause]
Nil == Sentinel("nil", NoError)
ErrUserNotFound == Sentinel("ErrUserNotFound", NoError)
ErrDuplicateEmail == Sentinel("ErrDuplicateEmail", NoError)
ErrInvalidID == Sentinel("ErrInvalidID", NoError)
ErrInvalidPageSize == Sentinel("ErrInvalidPageSize", NoError)
ErrInvalidPage == Sentinel("ErrInvalidPage", NoError)
ErrDatabaseInternal(cause) == Sentinel("ErrDatabaseInternal", cause)

pgDuplicateCode == "23505"

\* an entry written with logger.Error: who wrote it and the error it reports
LogEntry(by, err) == [by |-> by, err |-> err]

\* variant: every unique violation taken for a duplicate email
handleErrorAnyUnique(err) ==
    IF err.type = "pq.Error" /\ err.code = pgDuplicateCode
    THEN [err |-> ErrDuplicateEmail, logs |-> <<>>]
    ELSE IF err.type = "sql.ErrNoRows"
    THEN [err |-> ErrUserNotFound, logs |-> <<>>]
    ELSE [err |-> ErrDatabaseInternal(err), logs |-> <<LogEntry("handleError", err)>>]

\* variant: an internal error returned without a log entry
handleErrorSilent(err) ==
    IF err.type = "pq.Error" /\ err.code = pgDuplicateCode /\ err.constraint = "users_email_key"
    THEN [err |-> ErrDuplicateEmail, logs |-> <<>>]
    ELSE IF err.type = "sql.ErrNoRows"
    THEN [err |-> ErrUserNotFound, logs |-> <<>>]
    ELSE [err |-> ErrDatabaseInternal(err), logs |-> <<>>]

\* handleError: the mapped error and the error log entries written
handleError(err) ==
    IF err.type = "pq.Error" /\ err.code = pgDuplicateCode /\ err.constraint = "users_email_key"
    THEN [err |-> ErrDuplicateEmail, logs |-> <<>>]
    ELSE IF err.type = "sql.ErrNoRows"
    THEN [err |-> ErrUserNotFound, logs |-> <<>>]
    ELSE [err |-> ErrDatabaseInternal(err), logs |-> <<LogEntry("handleError", err)>>]

---------------------------------------------------------------------------
(* domain.User and the Go values the store returns *)

\* variant: a scan whose destinations for the two names are exchanged
scanUserSwapped(row) ==
    [ID |-> row.id, Email |-> row.email, FirstName |-> row.last_name,
     LastName |-> row.first_name, CreatedAt |-> row.created_at, UpdatedAt |-> row.updated_at]

\* scanUser: the columns of a row, in SELECT order, into a domain.User
scanUser(row) ==
    [ID |-> row.id, Email |-> row.email, FirstName |-> row.first_name,
     LastName |-> row.last_name, CreatedAt |-> row.created_at, UpdatedAt |-> row.updated_at]

\* a *domain.User is nil or points to one user
NilUser == <<>>
UserPtr(u) == <<u>>

\* a []domain.User is the nil slice or a (possibly empty) allocated slice
NilSlice == [isNil |-> TRUE, elems |-> <<>>]
Slice(s) == [isNil |-> FALSE, elems |-> s]

NoCreate == [Email |-> "", FirstName |-> "", LastName |-> ""]
NoUpdate == [Email |-> "", FirstName |-> "", LastName |-> ""]

---------------------------------------------------------------------------
(* The request bodies of package domain and their validation tags.        *)
(* A Go string is a TLA+ string; Runes gives the characters of the        *)
(* strings that requests carry.                                            *)

Runes(str) ==
    CASE str = "" -> <<>>
      [] str = "a@x.io" -> <<"a", "@", "x", ".", "i", "o">>
      [] str = "b@x.io" -> <<"b", "@", "x", ".", "i", "o">>
      [] str = "c@x.io" -> <<"c", "@", "x", ".", "i", "o">>
      [] str = "a.io" -> <<"a", ".", "i", "o">>
      [] str = "@x.io" -> <<"@", "x", ".", "i", "o">>
      [] str = "Al" -> <<"A", "l">>
      [] str = "Bo" -> <<"B", "o">>
      [] str = "B" -> <<"B">>
      [] str = "J2" -> <<"J", "2">>
      [] str = "Doe" -> <<"D", "o", "e">>
      [] str = "Roe" -> <<"R", "o", "e">>

Letters ==
    {"a", "b", "c", "d", "e", "f", "g", "h", "i", "j", "k", "l", "m",
     "n", "o", "p", "q", "r", "s", "t", "u", "v", "w", "x", "y", "z",
     "A", "B", "C", "D", "E", "F", "G", "H", "I", "J", "K", "L", "M",
     "N", "O", "P", "Q", "R", "S", "T", "U", "V", "W", "X", "Y", "Z"}
Digits == {"0", "1", "2", "3", "4", "5", "6", "7", "8", "9"}

\* tag required: the field is not the zero value of its type
required(str) == str # ""

\* tag email, for addresses written with letters, digits, dots and @ signs:
\* one @ sign with a dot-separated name of letters and digits on either side
isEmail(str) ==
    LET r == Runes(str)
        Atom(from, to) ==
            /\ from <= to
            /\ r[from] # "." /\ r[to] # "."
            /\ \A i \in from .. to : r[i] \in Letters \cup Digits \cup {"."}
            /\ \A i \in from .. to - 1 : ~(r[i] = "." /\ r[i + 1] = ".")
    IN  \E at \in DOMAIN r :
            /\ r[at] = "@"
            /\ Atom(1, at - 1)
            /\ Atom(at + 1, Len(r))

\* tag alpha: one or more ASCII letters and nothing else
isAlpha(str) ==
    /\ Runes(str) # <<>>
    /\ \A i \in DOMAIN Runes(str) : Runes(str)[i] \in Letters

\* tag min=n on a string: at least n characters
hasMin(str, n) == Len(Runes(str)) >= n

\* the shortest name an update may supply
MinNameLen == 2

\* variant: a create request validated without the format of the email
UserCreateValidateRequiredOnly(u) ==
    {f \in {"Email", "FirstName", "LastName"} : ~required(u[f])}
        \cup {f \in {"FirstName", "LastName"} : required(u[f]) /\ ~isAlpha(u[f])}

\* UserCreate.Validate: the fields that fail their tags (the error is nil iff none does);
\* email is required,email and both names are required,alpha
UserCreateValidate(u) ==
    {f \in {"Email"} : ~required(u[f]) \/ ~isEmail(u[f])}
        \cup {f \in {"FirstName", "LastName"} : ~required(u[f]) \/ ~isAlpha(u[f])}

\* variant: an update validated without omitempty
UserUpdateValidateNoOmit(u) ==
    {f \in {"Email"} : ~isEmail(u[f])}
        \cup {f \in {"FirstName", "LastName"} : ~isAlpha(u[f]) \/ ~hasMin(u[f], MinNameLen)}

\* UserUpdate.Validate: email is omitempty,email and both names are omitempty,alpha,min=2;
\* omitempty skips the other tags of a field that holds the zero value
UserUpdateValidate(u) ==
    {f \in {"Email"} : u[f] # "" /\ ~isEmail(u[f])}
        \cup {f \in {"FirstName", "LastName"} :
                 u[f] # "" /\ (~isAlpha(u[f]) \/ ~hasMin(u[f], MinNameLen))}

\* User.ToResponse
ToResponse(u) ==
    [ID |-> u.ID, Email |-> u.Email, FirstName |-> u.FirstName, LastName |-> u.LastName,
     CreatedAt |-> u.CreatedAt, UpdatedAt |-> u.UpdatedAt]

---------------------------------------------------------------------------
(* The users table: what PostgreSQL does with the statements of the store *)

\* variant: the current value of the sequence instead of the next one
nextvalCurrent(s) == s

\* variant: an identity computed from the rows present instead of a sequence
nextvalFromCount(s) == Cardinality(users) + 1

\* nextval of the sequence behind id SERIAL
nextval(s) == s + 1

\* variant: a table without the UNIQUE constraint on email
UniqueViolationNever(table, email, id) == FALSE

\* the UNIQUE constraint users_email_key: another row already holds email
UniqueViolation(table, email, id) ==
    \E r \in table : r.email = email /\ r.id # id

\* variant: an insert whose row stays in the table when the constraint rejects it
sqlCreateUserKeepsRow(table, s, t, email, firstName, lastName) ==
    LET id == s + 1
        row == [id |-> id, email |-> email, first_name |-> firstName,
                last_name |-> lastName, created_at |-> t, updated_at |-> t]
    IN  IF \E r \in table : r.email = email
        THEN [table |-> table \cup {row}, seq |-> id, id |-> 0,
              err |-> PqError(pgDuplicateCode, "users_email_key")]
        ELSE [table |-> table \cup {row}, seq |-> id, id |-> id, err |-> NoError]

\* sqlCreateUser: INSERT ... VALUES ($1, $2, $3, NOW(), NOW()) RETURNING id.
\* The default of id is evaluated before the constraints are checked, so a
\* rejected insert has consumed a sequence value.
sqlCreateUser(table, s, t, email, firstName, lastName) ==
    LET id == nextval(s)
        row == [id |-> id, email |-> email, first_name |-> firstName,
                last_name |-> lastName, created_at |-> t, updated_at |-> t]
    IN  IF UniqueViolation(table, email, id)
        THEN [table |-> table, seq |-> id, id |-> 0,
              err |-> PqError(pgDuplicateCode, "users_email_key")]
        ELSE [table |-> table \cup {row}, seq |-> id, id |-> id, err |-> NoError]

\* sqlGetUserByID through QueryRowContext + Scan: the row, or sql.ErrNoRows
sqlGetUserByID(table, id) ==
    IF \E r \in table : r.id = id
    THEN [row |-> <<CHOOSE r \in table : r.id = id>>, err |-> NoError]
    ELSE [row |-> <<>>, err |-> SqlErrNoRows]

\* sqlDeleteUser: DELETE FROM users WHERE id = $1
sqlDeleteUser(table, id) ==
    [table |-> {r \in table : r.id # id},
     rowsAffected |-> Cardinality({r \in table : r.id = id})]

\* sqlCountUsers: SELECT COUNT(*) FROM users
sqlCountUsers(table) == Cardinality(table)

\* the rows of table in ascending id order
RECURSIVE OrderById(_)
OrderById(table) ==
    IF table = {} THEN <<>>
    ELSE LET first == CHOOSE r \in table : \A q \in table : r.id <= q.id
         IN  <<first>> \o OrderById(table \ {first})

Min(a, b) == IF a <= b THEN a ELSE b

\* sqlListUsers: SELECT ... FROM users ORDER BY id LIMIT $1 OFFSET $2
sqlListUsers(table, limit, offset) ==
    LET all == OrderById(table)
    IN  SubSeq(all, offset + 1, Min(Len(all), offset + limit))

---------------------------------------------------------------------------
(* UpdateUser's statement *)

StrArg(s) == [t |-> "string", s |-> s, i |-> 0]
IntArg(i) == [t |-> "int64", s |-> "", i |-> i]

\* one entry of the SET list: column = $pos, or column = NOW() (pos 0)
SetArg(col, pos) == [col |-> col, expr |-> "$", pos |-> pos]
SetNow(col) == [col |-> col, expr |-> "NOW()", pos |-> 0]

\* variant: a SET list without updated_at = NOW()
buildUpdateQueryNoTouch(userUpdate, id) ==
    LET u1 == IF userUpdate.Email # "" THEN <<SetArg("email", 1)>> ELSE <<>>
        a1 == IF userUpdate.Email # "" THEN <<StrArg(userUpdate.Email)>> ELSE <<>>
        u2 == IF userUpdate.FirstName # ""
              THEN u1 \o <<SetArg("first_name", Len(a1) + 1)>> ELSE u1
        a2 == IF userUpdate.FirstName # ""
              THEN a1 \o <<StrArg(userUpdate.FirstName)>> ELSE a1
        u3 == IF userUpdate.LastName # ""
              THEN u2 \o <<SetArg("last_name", Len(a2) + 1)>> ELSE u2
        a3 == IF userUpdate.LastName # ""
              THEN a2 \o <<StrArg(userUpdate.LastName)>> ELSE a2
    IN  [updates |-> u3,
         whereID |-> Len(a3) + 1,
         args |-> a3 \o <<IntArg(id)>>]

\* variant: the last name placed before the first name
buildUpdateQueryLastFirst(userUpdate, id) ==
    LET u1 == IF userUpdate.Email # "" THEN <<SetArg("email", 1)>> ELSE <<>>
        a1 == IF userUpdate.Email # "" THEN <<StrArg(userUpdate.Email)>> ELSE <<>>
        u2 == IF userUpdate.LastName # ""
              THEN u1 \o <<SetArg("last_name", Len(a1) + 1)>> ELSE u1
        a2 == IF userUpdate.LastName # ""
              THEN a1 \o <<StrArg(userUpdate.LastName)>> ELSE a1
        u3 == IF userUpdate.FirstName # ""
              THEN u2 \o <<SetArg("first_name", Len(a2) + 1)>> ELSE u2
        a3 == IF userUpdate.FirstName # ""
              THEN a2 \o <<StrArg(userUpdate.FirstName)>> ELSE a2
    IN  [updates |-> u3 \o <<SetNow("updated_at")>>,
         whereID |-> Len(a3) + 1,
         args |-> a3 \o <<IntArg(id)>>]

\* buildUpdateQuery: the SET list, the placeholder of the WHERE id and the arguments
buildUpdateQuery(userUpdate, id) ==
    LET u1 == IF userUpdate.Email # "" THEN <<SetArg("email", 1)>> ELSE <<>>
        a1 == IF userUpdate.Email # "" THEN <<StrArg(userUpdate.Email)>> ELSE <<>>
        u2 == IF userUpdate.FirstName # ""
              THEN u1 \o <<SetArg("first_name", Len(a1) + 1)>> ELSE u1
        a2 == IF userUpdate.FirstName # ""
              THEN a1 \o <<StrArg(userUpdate.FirstName)>> ELSE a1
        u3 == IF userUpdate.LastName # ""
              THEN u2 \o <<SetArg("last_name", Len(a2) + 1)>> ELSE u2
        a3 == IF userUpdate.LastName # ""
              THEN a2 \o <<StrArg(userUpdate.LastName)>> ELSE a2
    IN  [updates |-> u3 \o <<SetNow("updated_at")>>,
         whereID |-> Len(a3) + 1,
         args |-> a3 \o <<IntArg(id)>>]

\* variant: a column the SET list leaves out is emptied
SetValueNulling(query, row, col, t) ==
    LET hits == {k \in 1 .. Len(query.updates) : query.updates[k].col = col}
    IN  IF hits = {} THEN ""
        ELSE LET k == CHOOSE h \in hits : TRUE
             IN  IF query.updates[k].expr = "NOW()" THEN t
                 ELSE query.args[query.updates[k].pos].s

\* the value the SET list gives column col of row, or the old value
SetValue(query, row, col, t) ==
    LET hits == {k \in 1 .. Len(query.updates) : query.updates[k].col = col}
    IN  IF hits = {} THEN row[col]
        ELSE LET k == CHOOSE h \in hits : TRUE
             IN  IF query.updates[k].expr = "NOW()" THEN t
                 ELSE query.args[query.updates[k].pos].s

\* variant: a rejected statement that leaves its other changes in the row
execUpdateKeepsOthers(table, query, t) ==
    LET id == query.args[query.whereID].i
        old == {r \in table : r.id = id}
        new == {[id |-> r.id,
                 email |-> SetValue(query, r, "email", t),
                 first_name |-> SetValue(query, r, "first_name", t),
                 last_name |-> SetValue(query, r, "last_name", t),
                 created_at |-> r.created_at,
                 updated_at |-> SetValue(query, r, "updated_at", t)] : r \in old}
        kept == {[r EXCEPT !.email = (CHOOSE o \in old : TRUE).email] : r \in new}
    IN  IF \E r \in new : UniqueViolation(table, r.email, r.id)
        THEN [table |-> (table \ old) \cup kept, rowsAffected |-> 0,
              err |-> PqError(pgDuplicateCode, "users_email_key")]
        ELSE [table |-> (table \ old) \cup new, rowsAffected |-> Cardinality(old),
              err |-> NoError]

\* PostgreSQL executing the statement buildUpdateQuery made:
\* UPDATE users SET ... WHERE id = $n RETURNING id
execUpdate(table, query, t) ==
    LET id == query.args[query.whereID].i
        old == {r \in table : r.id = id}
        new == {[id |-> r.id,
                 email |-> SetValue(query, r, "email", t),
                 first_name |-> SetValue(query, r, "first_name", t),
                 last_name |-> SetValue(query, r, "last_name", t),
                 created_at |-> r.created_at,
                 updated_at |-> SetValue(query, r, "updated_at", t)] : r \in old}
    IN  IF \E r \in new : UniqueViolation(table, r.email, r.id)
        THEN [table |-> table, rowsAffected |-> 0,
              err |-> PqError(pgDuplicateCode, "users_email_key")]
        ELSE [table |-> (table \ old) \cup new, rowsAffected |-> Cardinality(old),
              err |-> NoError]

---------------------------------------------------------------------------
(* The connection handle: sql.Open, the connectivity probe and Close.      *)

\* the pool settings of a PostgresConfig (durations in minutes)
PostgresConfigs ==
    [MaxOpenConns : {0, 1, 25}, MaxIdleConns : {2, 5},
     ConnMaxLifetime : {0, 5}, ConnMaxIdleTime : {0, 5}]
\* the configuration config.LoadConfig builds from an empty environment
DefaultConfig ==
    [MaxOpenConns |-> 25, MaxIdleConns |-> 5, ConnMaxLifetime |-> 5, ConnMaxIdleTime |-> 5]

\* the pool settings of a handle fresh from sql.Open: no limit on open
\* connections, two idle connections, no limit on either age
sqlDefaults ==
    [MaxOpenConns |-> 0, MaxIdleConns |-> 2, ConnMaxLifetime |-> 0, ConnMaxIdleTime |-> 0]

NoHandle == [state |-> "none", pool |-> sqlDefaults]
\* sql.Open("postgres", connStr): the connection string carries host, port, user,
\* password, dbname and sslmode, none of the pool settings
sqlOpen(cfg) == [state |-> "open", pool |-> sqlDefaults]

\* variant: a Close that leaves the handle open
sqlCloseNoop(handle) == handle

\* db.Close()
sqlClose(handle) == [handle EXCEPT !.state = "closed"]

\* the store constructed by a caller other than func main
NoMain == "none"

\* the process before NewPostgresStore is called
NoDB == [cfg |-> DefaultConfig, handle |-> NoHandle, store |-> "nil", err |-> "nil",
         warns |-> 0]
\* a store that NewPostgresStore returned
OpenDB == [cfg |-> DefaultConfig, handle |-> sqlOpen(DefaultConfig), store |-> "store",
           err |-> "nil", warns |-> 0]

---------------------------------------------------------------------------
(* State *)

\* the locals of a ListUsers call between its backend round trips
IdleTx == [pc |-> "idle", page |-> 0, pageSize |-> 0, totalCount |-> 0,
           users |-> NilSlice, dirty |-> FALSE, trace |-> <<>>]

\* what a store call got and what it gave back
Call(op, id, userCreate, userUpdate, page, pageSize) ==
    [op |-> op, id |-> id, userCreate |-> userCreate, userUpdate |-> userUpdate,
     page |-> page, pageSize |-> pageSize]
\* what one call on the database handle or on the transaction answered
Answer(call, err) == [call |-> call, err |-> err]
\* the round trips among them: Rollback on a transaction that Commit has finished
\* is answered by database/sql itself with sql.ErrTxDone
Sent(trace) == Cardinality({i \in DOMAIN trace : trace[i].err # SqlErrTxDone})

Result(err, retID, user, list, count, trace, logs, dirty) ==
    [err |-> err, retID |-> retID, user |-> user, users |-> list, count |-> count,
     stmts |-> Sent(trace), trace |-> trace, logs |-> logs, dirty |-> dirty]
Returned(call, result) == [call |-> call, ret |-> result]

NoCall == Returned(Call("none", 0, NoCreate, NoUpdate, 0, 0),
                   Result(Nil, 0, NilUser, NilSlice, 0, <<>>, <<>>, FALSE))

\* a statement of another caller that changed the table while ListUsers is in flight
Disturb(t, table) ==
    IF t.pc # "idle" /\ table # users THEN [t EXCEPT !.dirty = TRUE] ELSE t

---------------------------------------------------------------------------
(* The single-statement operations.  f is the error the backend round trip *)
(* fails with before the statement runs (NoError: the statement runs).     *)

\* variant: an identity check that lets 0 through
invalidIDNegative(id) == id < 0

\* the identity check of GetUserByID, UpdateUser and DeleteUser
invalidID(id) == id <= 0

CreateUser(userCreate, f) ==
    /\ last = NoCall
    /\ seq < MaxSeq
    /\ LET call == Call("CreateUser", 0, userCreate, NoUpdate, 0, 0)
           res == sqlCreateUser(users, seq, now, userCreate.Email,
                                userCreate.FirstName, userCreate.LastName)
       IN  IF f # NoError
           THEN /\ last' = Returned(call, Result(handleError(f).err, 0, NilUser, NilSlice, 0,
                                                 <<Answer("QueryRow", f)>>, handleError(f).logs, FALSE))
                /\ UNCHANGED <<users, seq, tx, issued>>
           ELSE IF res.err # NoError
           THEN /\ last' = Returned(call, Result(handleError(res.err).err, 0, NilUser, NilSlice, 0,
                                                 <<Answer("QueryRow", res.err)>>, handleError(res.err).logs, FALSE))
                /\ users' = res.table
                /\ seq' = res.seq
                /\ tx' = Disturb(tx, res.table)
                /\ UNCHANGED issued
           ELSE /\ last' = Returned(call, Result(Nil, res.id, NilUser, NilSlice, 0,
                                                 <<Answer("QueryRow", NoError)>>, <<>>, FALSE))
                /\ users' = res.table
                /\ seq' = res.seq
                /\ tx' = Disturb(tx, res.table)
                /\ issued' = issued \cup {res.id}
    /\ UNCHANGED <<now, deleted, http, db, main>>

GetUserByID(id, f) ==
    /\ last = NoCall
    /\ LET call == Call("GetUserByID", id, NoCreate, NoUpdate, 0, 0)
           res == IF f # NoError THEN [row |-> <<>>, err |-> f] ELSE sqlGetUserByID(users, id)
       IN  IF invalidID(id)
           THEN last' = Returned(call, Result(ErrInvalidID, 0, NilUser, NilSlice, 0, <<>>, <<>>, FALSE))
           ELSE IF res.err # NoError
           THEN last' = Returned(call, Result(handleError(res.err).err, 0, NilUser, NilSlice, 0,
                                              <<Answer("QueryRow", res.err)>>, handleError(res.err).logs, FALSE))
           ELSE last' = Returned(call, Result(Nil, 0, UserPtr(scanUser(res.row[1])), NilSlice, 0,
                                              <<Answer("QueryRow", NoError)>>, <<>>, FALSE))
    /\ UNCHANGED <<users, seq, now, tx, issued, deleted, http, db, main>>

UpdateUser(id, userUpdate, f) ==
    /\ last = NoCall
    /\ LET call == Call("UpdateUser", id, NoCreate, userUpdate, 0, 0)
           query == buildUpdateQuery(userUpdate, id)
           res == IF f # NoError THEN [table |-> users, rowsAffected |-> 0, err |-> f]
                  ELSE execUpdate(users, query, now)
       IN  IF invalidID(id)
           THEN /\ last' = Returned(call, Result(ErrInvalidID, 0, NilUser, NilSlice, 0, <<>>, <<>>, FALSE))
                /\ UNCHANGED <<users, tx>>
           ELSE /\ users' = res.table
                /\ tx' = Disturb(tx, res.table)
                /\ IF res.err # NoError
                   THEN last' = Returned(call, Result(handleError(res.err).err, 0, NilUser, NilSlice,
                                                      0, <<Answer("Exec", res.err)>>, handleError(res.err).logs, FALSE))
                   ELSE IF res.rowsAffected = 0
                   THEN last' = Returned(call, Result(ErrUserNotFound, 0, NilUser, NilSlice, 0,
                                                      <<Answer("Exec", NoError)>>, <<>>, FALSE))
                   ELSE last' = Returned(call, Result(Nil, 0, NilUser, NilSlice, 0, <<Answer("Exec", NoError)>>, <<>>, FALSE))
    /\ UNCHANGED <<seq, now, issued, deleted, http, db, main>>

DeleteUser(id, f) ==
    /\ last = NoCall
    /\ LET call == Call("DeleteUser", id, NoCreate, NoUpdate, 0, 0)
           res == sqlDeleteUser(users, id)
       IN  IF invalidID(id)
           THEN /\ last' = Returned(call, Result(ErrInvalidID, 0, NilUser, NilSlice, 0, <<>>, <<>>, FALSE))
                /\ UNCHANGED <<users, tx, deleted>>
           ELSE IF f # NoError
           THEN /\ last' = Returned(call, Result(handleError(f).err, 0, NilUser, NilSlice, 0,
                                                 <<Answer("Exec", f)>>, handleError(f).logs, FALSE))
                /\ UNCHANGED <<users, tx, deleted>>
           ELSE IF res.rowsAffected = 0
           THEN /\ last' = Returned(call, Result(ErrUserNotFound, 0, NilUser, NilSlice, 0,
                                                 <<Answer("Exec", NoError)>>, <<>>, FALSE))
                /\ UNCHANGED <<users, tx, deleted>>
           ELSE /\ last' = Returned(call, Result(Nil, 0, NilUser, NilSlice, 0, <<Answer("Exec", NoError)>>, <<>>, FALSE))
                /\ users' = res.table
                /\ tx' = Disturb(tx, res.table)
                /\ deleted' = deleted \cup {id}
    /\ UNCHANGED <<seq, now, issued, http, db, main>>

\* the caller takes the results of the call that returned
Return ==
    /\ last # NoCall
    /\ last' = NoCall
    /\ UNCHANGED <<users, seq, now, tx, issued, deleted, http, db, main>>

\* time passes on the database clock
Tick ==
    /\ now < MaxTime
    /\ now' = now + 1
    /\ UNCHANGED <<users, seq, tx, last, issued, deleted, http, db, main>>

---------------------------------------------------------------------------
(* ListUsers: validation, then withTx(readOnly) around COUNT and the page   *)
(* SELECT.  BeginTx sets no isolation level, so the transaction runs at     *)
(* the server default READ COMMITTED: each statement reads the rows         *)
(* committed when it starts.                                                *)

\* variant: the page size checked before the page
validatePagingSizeFirst(page, pageSize) ==
    IF pageSize < 1 \/ pageSize > MaxPageSize THEN ErrInvalidPageSize
    ELSE IF page < 1 THEN ErrInvalidPage
    ELSE Nil

\* variant: an upper limit of the page size that is off by one
validatePagingOffByOne(page, pageSize) ==
    IF page < 1 THEN ErrInvalidPage
    ELSE IF pageSize < 1 \/ pageSize > MaxPageSize + 1 THEN ErrInvalidPageSize
    ELSE Nil

\* the checks ListUsers makes before any backend access
validatePaging(page, pageSize) ==
    IF page < 1 THEN ErrInvalidPage
    ELSE IF pageSize < 1 \/ pageSize > MaxPageSize THEN ErrInvalidPageSize
    ELSE Nil

\* the largest int, and the int that the bits of a product are read as
MaxInt == 2 ^ (IntBits - 1) - 1
wrap(n) ==
    LET m == n % (2 ^ IntBits)
    IN  IF m > MaxInt THEN m - 2 ^ IntBits ELSE m

\* variant: an offset that counts pages from 0
offsetZeroBased(page, pageSize) == wrap(page * pageSize)

\* offset := (page - 1) * pageSize, in int arithmetic
offset(page, pageSize) == wrap((page - 1) * pageSize)

\* PostgreSQL rejects a negative OFFSET (2201X, invalid_row_count_in_result_offset_clause)
pgOffsetCode == "2201X"
pageQueryErr(f, skip) ==
    IF f = NoError /\ skip < 0 THEN PqError(pgOffsetCode, "") ELSE f

\* the deferred tx.Rollback() of withTx: on a transaction already finished by
\* Commit it returns sql.ErrTxDone, otherwise it is sent to the backend and
\* returns r
rollbackErr(finished, r) == IF finished THEN SqlErrTxDone ELSE r

\* a non-nil result of the deferred rollback is logged: the log entries written
deferredRollback(finished, r) ==
    IF rollbackErr(finished, r) # NoError
    THEN <<LogEntry("withTx", rollbackErr(finished, r))>>
    ELSE <<>>

\* variant: a rollback attempted only while the transaction is unfinished
withTxExitUnfinishedOnly(trace, finished, r) ==
    IF finished THEN trace ELSE Append(trace, Answer("Rollback", r))

\* the calls made on the transaction when withTx returns after BeginTx succeeded:
\* the deferred function runs on every such return
withTxExit(trace, finished, r) ==
    Append(trace, Answer("Rollback", rollbackErr(finished, r)))

ListCall == Call("ListUsers", 0, NoCreate, NoUpdate, tx.page, tx.pageSize)

\* the call, its validation and BeginTx
ListUsers(page, pageSize, f) ==
    /\ last = NoCall
    /\ tx.pc = "idle"
    /\ LET call == Call("ListUsers", 0, NoCreate, NoUpdate, page, pageSize)
           invalid == validatePaging(page, pageSize)
       IN  IF invalid # Nil
           THEN /\ last' = Returned(call, Result(invalid, 0, NilUser, NilSlice, 0, <<>>, <<>>, FALSE))
                /\ UNCHANGED tx
           ELSE IF f # NoError
           THEN /\ last' = Returned(call, Result(handleError(f).err, 0, NilUser, NilSlice, 0,
                                                 <<Answer("BeginTx", f)>>,
                                                 handleError(f).logs, FALSE))
                /\ UNCHANGED tx
           ELSE /\ tx' = [pc |-> "begun", page |-> page, pageSize |-> pageSize,
                          totalCount |-> 0, users |-> NilSlice, dirty |-> FALSE,
                          trace |-> <<Answer("BeginTx", NoError)>>]
                /\ UNCHANGED last
    /\ UNCHANGED <<users, seq, now, issued, deleted, http, db, main>>

\* tx.QueryRowContext(ctx, sqlCountUsers).Scan(&totalCount)
ListUsersCount(f, r) ==
    /\ last = NoCall
    /\ tx.pc = "begun"
    /\ IF f # NoError
       THEN /\ last' = Returned(ListCall,
                                Result(handleError(f).err, 0, NilUser, NilSlice, 0,
                                       withTxExit(Append(tx.trace, Answer("QueryRow", f)), FALSE, r),
                                       handleError(f).logs \o deferredRollback(FALSE, r), tx.dirty))
            /\ tx' = IdleTx
       ELSE /\ tx' = [tx EXCEPT !.pc = "counted", !.totalCount = sqlCountUsers(users),
                                !.trace = Append(@, Answer("QueryRow", NoError))]
            /\ UNCHANGED last
    /\ UNCHANGED <<users, seq, now, issued, deleted, http, db, main>>

\* the rows of a result set scanned into a slice made with make([]domain.User, 0, pageSize)
RECURSIVE scanRows(_)
scanRows(rows) ==
    IF rows = <<>> THEN <<>> ELSE <<scanUser(Head(rows))>> \o scanRows(Tail(rows))

\* variant: a failed page query that still returns the count already read
ListUsersPageKeepsCount(f, r) ==
    /\ last = NoCall
    /\ tx.pc = "counted"
    /\ LET g == pageQueryErr(f, offset(tx.page, tx.pageSize))
       IN
       IF g # NoError
       THEN /\ last' = Returned(ListCall,
                                Result(handleError(g).err, 0, NilUser, NilSlice, tx.totalCount,
                                       withTxExit(Append(tx.trace, Answer("Query", g)), FALSE, r),
                                       handleError(g).logs \o deferredRollback(FALSE, r), tx.dirty))
            /\ tx' = IdleTx
       ELSE /\ tx' = [tx EXCEPT !.pc = "queried",
                                !.users = Slice(scanRows(sqlListUsers(users, tx.pageSize,
                                                             offset(tx.page, tx.pageSize)))),
                                !.trace = Append(@, Answer("Query", NoError))]
            /\ UNCHANGED last
    /\ UNCHANGED <<users, seq, now, issued, deleted, http, db, main>>

\* tx.QueryContext(ctx, sqlListUsers, pageSize, offset) and the scan of its rows
ListUsersPage(f, r) ==
    /\ last = NoCall
    /\ tx.pc = "counted"
    /\ LET g == pageQueryErr(f, offset(tx.page, tx.pageSize))
       IN
       IF g # NoError
       THEN /\ last' = Returned(ListCall,
                                Result(handleError(g).err, 0, NilUser, NilSlice, 0,
                                       withTxExit(Append(tx.trace, Answer("Query", g)), FALSE, r),
                                       handleError(g).logs \o deferredRollback(FALSE, r), tx.dirty))
            /\ tx' = IdleTx
       ELSE /\ tx' = [tx EXCEPT !.pc = "queried",
                                !.users = Slice(scanRows(sqlListUsers(users, tx.pageSize,
                                                             offset(tx.page, tx.pageSize)))),
                                !.trace = Append(@, Answer("Query", NoError))]
            /\ UNCHANGED last
    /\ UNCHANGED <<users, seq, now, issued, deleted, http, db, main>>

\* tx.Commit(), the deferred rollback and the return of ListUsers
ListUsersCommit(f) ==
    /\ last = NoCall
    /\ tx.pc = "queried"
    /\ IF f # NoError
       THEN last' = Returned(ListCall,
                             Result(handleError(f).err, 0, NilUser, NilSlice, 0,
                                    withTxExit(Append(tx.trace, Answer("Commit", f)), TRUE, NoError),
                                    handleError(f).logs \o deferredRollback(TRUE, NoError), tx.dirty))
       ELSE last' = Returned(ListCall,
                             Result(Nil, 0, NilUser, tx.users, tx.totalCount,
                                    withTxExit(Append(tx.trace, Answer("Commit", NoError)), TRUE, NoError),
                                    deferredRollback(TRUE, NoError), tx.dirty))
    /\ tx' = IdleTx
    /\ UNCHANGED <<users, seq, now, issued, deleted, http, db, main>>

---------------------------------------------------------------------------
(* The HTTP handlers of package handler.  A handler decodes and checks its *)
(* request, calls the store once and maps what the store returned to a     *)
(* response.                                                               *)

\* a JSON request body: text that does not decode, or an object given by its members
Malformed == [ok |-> FALSE, members |-> {}]
JsonObject(email, firstName, lastName) ==
    [ok |-> TRUE,
     members |-> {m \in {<<"email", email>>, <<"first_name", firstName>>,
                         <<"last_name", lastName>>} : m[2] # ""}]
Member(body, key) ==
    IF \E m \in body.members : m[1] = key
    THEN (CHOOSE m \in body.members : m[1] = key)[2]
    ELSE ""

\* json.NewDecoder(r.Body).Decode(&v): a member the object lacks leaves the zero value
Decode(body) ==
    [err |-> ~body.ok,
     val |-> [Email |-> Member(body, "email"), FirstName |-> Member(body, "first_name"),
              LastName |-> Member(body, "last_name")]]

DigitValue(c) ==
    CASE c = "0" -> 0 [] c = "1" -> 1 [] c = "2" -> 2 [] c = "3" -> 3 [] c = "4" -> 4
      [] c = "5" -> 5 [] c = "6" -> 6 [] c = "7" -> 7 [] c = "8" -> 8 [] c = "9" -> 9

RECURSIVE Decimal(_)
Decimal(digits) ==
    IF digits = <<>> THEN 0
    ELSE 10 * Decimal(SubSeq(digits, 1, Len(digits) - 1)) + DigitValue(digits[Len(digits)])

\* strconv.ParseInt(s, 10, 64) and strconv.Atoi(s) on texts too short to leave
\* the range of the type: an optional sign and one or more decimal digits
ParseInt(chars) ==
    LET signed == chars # <<>> /\ chars[1] \in {"+", "-"}
        digits == IF signed THEN Tail(chars) ELSE chars
    IN  IF digits = <<>> \/ \E i \in DOMAIN digits : digits[i] \notin Digits
        THEN [err |-> TRUE, val |-> 0]
        ELSE [err |-> FALSE,
              val |-> IF signed /\ chars[1] = "-" THEN 0 - Decimal(digits) ELSE Decimal(digits)]

\* variant: an identity of 0 passed on to the store
parseIDFromURLZero(raw) ==
    IF ParseInt(raw).err \/ ParseInt(raw).val < 0
    THEN [err |-> TRUE, id |-> 0]
    ELSE [err |-> FALSE, id |-> ParseInt(raw).val]

\* parseIDFromURL
parseIDFromURL(raw) ==
    IF ParseInt(raw).err \/ ParseInt(raw).val <= 0
    THEN [err |-> TRUE, id |-> 0]
    ELSE [err |-> FALSE, id |-> ParseInt(raw).val]

\* the page and the page size the list handler falls back to
DefaultPage == 1
DefaultPageSize == 10
\* the largest page_size the list handler passes on
MaxQueryPageSize == 100

\* page and pageSize of the list handler from the query parameters
\* (Query().Get gives the empty text for an absent parameter)
pageOf(raw) ==
    IF ParseInt(raw).err \/ ParseInt(raw).val <= 0 THEN DefaultPage ELSE ParseInt(raw).val
\* variant: a page size above 100 is passed on
pageSizeOfUnbounded(raw) ==
    IF ParseInt(raw).err \/ ParseInt(raw).val <= 0
    THEN DefaultPageSize
    ELSE ParseInt(raw).val

\* pageSize of the list handler: the page_size parameter, or 10
pageSizeOf(raw) ==
    IF ParseInt(raw).err \/ ParseInt(raw).val <= 0 \/ ParseInt(raw).val > MaxQueryPageSize
    THEN DefaultPageSize
    ELSE ParseInt(raw).val

\* variant: the number of pages rounded up
totalPagesOfCeil(totalCount, pageSize) ==
    IF (totalCount + pageSize - 1) \div pageSize < 1 THEN 1
    ELSE (totalCount + pageSize - 1) \div pageSize

\* totalPages := totalCount / pageSize; if totalPages < 1 { totalPages = 1 }
totalPagesOf(totalCount, pageSize) ==
    IF totalCount \div pageSize < 1 THEN 1 ELSE totalCount \div pageSize

\* errors.Is(err, target) for the sentinels of package storage
errorsIs(err, target) == err.kind = target.kind

Request(method, route, id, body, page, pageSize) ==
    [method |-> method, route |-> route, id |-> id, body |-> body,
     page |-> page, pageSize |-> pageSize]
NoRequest == Request("", "", <<>>, Malformed, <<>>, <<>>)

\* a response: its status and, by kind, an error message, the new identity, a user or a page
Response(status, kind, error, id, user, list) ==
    [status |-> status, kind |-> kind, error |-> error, id |-> id, user |-> user, list |-> list]
NoResponse == Response(0, "none", "", 0, <<>>, <<>>)
respondWithError(code, message) == Response(code, "error", message, 0, <<>>, <<>>)

\* domain.PaginatedUsersResponse
PaginatedUsersResponse(list, totalCount, totalPages, page, pageSize) ==
    [Users |-> list, TotalCount |-> totalCount, TotalPages |-> totalPages,
     Page |-> page, PageSize |-> pageSize]

\* the exchange a handler is serving: the request, the body given to Validate and the
\* fields Validate rejected, the store call the handler makes, and the response written
Exchange(pc, req, decoded, validated, verr, call, resp) ==
    [pc |-> pc, req |-> req, decoded |-> decoded, validated |-> validated, verr |-> verr,
     call |-> call, resp |-> resp]
NoStoreCall == Call("none", 0, NoCreate, NoUpdate, 0, 0)
NoExchange == Exchange("idle", NoRequest, NoCreate, FALSE, {}, NoStoreCall, NoResponse)

\* a handler answers without calling the store
Reject(req, decoded, validated, verr, code, message) ==
    Exchange("responded", req, decoded, validated, verr, NoStoreCall,
             respondWithError(code, message))
\* a handler goes on to call the store
Admit(req, decoded, validated, call) ==
    Exchange("calling", req, decoded, validated, {}, call, NoResponse)

\* UserHandler.CreateUser up to its store call
HandleCreateUser(req) ==
    LET d == Decode(req.body)
    IN  IF d.err THEN Reject(req, NoCreate, FALSE, {}, 400, "Invalid request")
        ELSE IF UserCreateValidate(d.val) # {}
        THEN Reject(req, d.val, TRUE, UserCreateValidate(d.val), 400, "validation")
        ELSE Admit(req, d.val, TRUE, Call("CreateUser", 0, d.val, NoUpdate, 0, 0))

\* UserHandler.GetUser up to its store call
HandleGetUser(req) ==
    LET p == parseIDFromURL(req.id)
    IN  IF p.err THEN Reject(req, NoCreate, FALSE, {}, 400, "Invalid user ID")
        ELSE Admit(req, NoCreate, FALSE, Call("GetUserByID", p.id, NoCreate, NoUpdate, 0, 0))

\* UserHandler.UpdateUser up to its store call
HandleUpdateUser(req) ==
    LET p == parseIDFromURL(req.id)
        d == Decode(req.body)
    IN  IF p.err THEN Reject(req, NoUpdate, FALSE, {}, 400, "Invalid user ID")
        ELSE IF d.err THEN Reject(req, NoUpdate, FALSE, {}, 400, "Invalid request body")
        ELSE IF UserUpdateValidate(d.val) # {}
        THEN Reject(req, d.val, TRUE, UserUpdateValidate(d.val), 400, "validation")
        ELSE Admit(req, d.val, TRUE, Call("UpdateUser", p.id, NoCreate, d.val, 0, 0))

\* UserHandler.DeleteUser up to its store call
HandleDeleteUser(req) ==
    LET p == parseIDFromURL(req.id)
    IN  IF p.err THEN Reject(req, NoCreate, FALSE, {}, 400, "Invalid user ID")
        ELSE Admit(req, NoCreate, FALSE, Call("DeleteUser", p.id, NoCreate, NoUpdate, 0, 0))

\* UserHandler.ListUsers up to its store call
HandleListUsers(req) ==
    Admit(req, NoCreate, FALSE,
          Call("ListUsers", 0, NoCreate, NoUpdate, pageOf(req.page), pageSizeOf(req.pageSize)))

\* RegisterRoutes: the handler of a request
Route(req) ==
    CASE req.method = "POST" /\ req.route = "/users" -> HandleCreateUser(req)
      [] req.method = "GET" /\ req.route = "/users/{id}" -> HandleGetUser(req)
      [] req.method = "PUT" /\ req.route = "/users/{id}" -> HandleUpdateUser(req)
      [] req.method = "DELETE" /\ req.route = "/users/{id}" -> HandleDeleteUser(req)
      [] req.method = "GET" /\ req.route = "/users" -> HandleListUsers(req)

\* UserHandler.CreateUser after its store call
CreateUserResponse(ret) ==
    IF ret.err # Nil
    THEN IF errorsIs(ret.err, ErrDuplicateEmail)
         THEN respondWithError(409, "Email already exists")
         ELSE respondWithError(500, "Failed to create user")
    ELSE Response(201, "id", "", ret.retID, <<>>, <<>>)

\* UserHandler.GetUser after its store call
GetUserResponse(ret) ==
    IF ret.err # Nil
    THEN IF errorsIs(ret.err, ErrUserNotFound)
         THEN respondWithError(404, "User not found")
         ELSE respondWithError(500, "Failed to get user")
    ELSE Response(200, "user", "", 0, <<ToResponse(ret.user[1])>>, <<>>)

\* variant: an update handler without the branch for a duplicate email
UpdateUserResponseNoConflict(ret) ==
    IF ret.err # Nil
    THEN IF errorsIs(ret.err, ErrUserNotFound)
         THEN respondWithError(404, "User not found")
         ELSE respondWithError(500, "Failed to update user")
    ELSE Response(200, "text", "", 0, <<>>, <<>>)

\* UserHandler.UpdateUser after its store call
UpdateUserResponse(ret) ==
    IF ret.err # Nil
    THEN IF errorsIs(ret.err, ErrUserNotFound)
         THEN respondWithError(404, "User not found")
         ELSE IF errorsIs(ret.err, ErrDuplicateEmail)
         THEN respondWithError(409, "Email already exists")
         ELSE respondWithError(500, "Failed to update user")
    ELSE Response(200, "text", "", 0, <<>>, <<>>)

\* UserHandler.DeleteUser after its store call
DeleteUserResponse(ret) ==
    IF ret.err # Nil
    THEN IF errorsIs(ret.err, ErrUserNotFound)
         THEN respondWithError(404, "User not found")
         ELSE respondWithError(500, "Failed to delete user")
    ELSE Response(204, "none", "", 0, <<>>, <<>>)

\* UserHandler.ListUsers after its store call
ListUsersResponse(call, ret) ==
    IF ret.err # Nil
    THEN respondWithError(500, "Failed to list users")
    ELSE Response(200, "list", "", 0, <<>>,
                  <<PaginatedUsersResponse(
                        [i \in DOMAIN ret.users.elems |-> ToResponse(ret.users.elems[i])],
                        ret.count, totalPagesOf(ret.count, call.pageSize),
                        call.page, call.pageSize)>>)

ResponseOf(returned) ==
    CASE returned.call.op = "CreateUser" -> CreateUserResponse(returned.ret)
      [] returned.call.op = "GetUserByID" -> GetUserResponse(returned.ret)
      [] returned.call.op = "UpdateUser" -> UpdateUserResponse(returned.ret)
      [] returned.call.op = "DeleteUser" -> DeleteUserResponse(returned.ret)
      [] returned.call.op = "ListUsers" -> ListUsersResponse(returned.call, returned.ret)

\* a request arrives and its handler runs up to the store call or to an early response
Serve(req) ==
    /\ http.pc = "idle"
    /\ last = NoCall
    /\ http' = Route(req)
    /\ UNCHANGED <<users, seq, now, tx, last, issued, deleted, db, main>>

\* the handler takes what the store returned and writes the response
Respond ==
    /\ http.pc = "calling"
    /\ last # NoCall
    /\ http' = [http EXCEPT !.pc = "responded", !.resp = ResponseOf(last)]
    /\ last' = NoCall
    /\ UNCHANGED <<users, seq, now, tx, issued, deleted, db, main>>

\* the client has the response
Done ==
    /\ http.pc = "responded"
    /\ http' = NoExchange
    /\ UNCHANGED <<users, seq, now, tx, last, issued, deleted, db, main>>

\* NewPostgresStore: the three results are those of sql.Open, of the probe and of the
\* Close that follows a failed probe (where its caller goes on is the caller's step)
NewPostgresStore(cfg, openErr, pingErr, closeErr) ==
    /\ db = NoDB
    /\ IF openErr
       THEN db' = [cfg |-> cfg, handle |-> NoHandle, store |-> "nil",
                   err |-> "failed to open database connection", warns |-> 0]
       ELSE IF pingErr
       THEN db' = [cfg |-> cfg, handle |-> sqlClose(sqlOpen(cfg)), store |-> "nil",
                   err |-> "failed to ping database", warns |-> IF closeErr THEN 1 ELSE 0]
       ELSE db' = [cfg |-> cfg, handle |-> sqlOpen(cfg), store |-> "store",
                   err |-> "nil", warns |-> 0]
    /\ UNCHANGED <<users, seq, now, tx, last, issued, deleted, http>>

\* PostgresStore.Close
Close ==
    /\ db.store = "store"
    /\ db.handle.state = "open"
    /\ db' = [db EXCEPT !.handle = sqlClose(@)]
    /\ UNCHANGED <<users, seq, now, tx, last, issued, deleted, http>>

\* func main: store, err := storage.NewPostgresStore(cfg.Postgres, zapLogger), and
\* zapLogger.Fatal when it returned an error
MainNewPostgresStore(cfg, openErr, pingErr, closeErr) ==
    /\ main = "start"
    /\ NewPostgresStore(cfg, openErr, pingErr, closeErr)
    /\ main' = IF db'.store = "nil" THEN "fatal" ELSE "constructed"

\* func main: _ = store.Close(), the statement that follows the construction
MainClose ==
    /\ main = "constructed"
    /\ Close
    /\ main' = "connected"

\* func main: the router, NewUserHandler(store, zapLogger), RegisterRoutes and the
\* goroutine running server.ListenAndServe()
MainListenAndServe ==
    /\ main = "connected"
    /\ main' = "serving"
    /\ UNCHANGED <<users, seq, now, tx, last, issued, deleted, http, db>>

\* func main: <-quit and server.Shutdown(ctx), which waits for the request being served
MainShutdown ==
    /\ main = "serving"
    /\ http.pc = "idle"
    /\ main' = "exited"
    /\ UNCHANGED <<users, seq, now, tx, last, issued, deleted, http, db>>

---------------------------------------------------------------------------
(* Specifications: every backend round trip is answered.                  *)
(* ListUsers only reads, and the four single-statement operations do not   *)
(* look at a ListUsers call in flight, so the operations on single users   *)
(* are explored in Spec without ListUsers, and ListUsers in SpecList       *)
(* together with the statements that change the number of rows.            *)

\* the store after construction, before any call
Init ==
    /\ users = {}
    /\ seq = 0
    /\ now = 0
    /\ tx = IdleTx
    /\ last = NoCall
    /\ issued = {}
    /\ deleted = {}
    /\ http = NoExchange
    /\ db = OpenDB
    /\ main = NoMain

Next ==
    \/ \E uc \in UserCreates : CreateUser(uc, NoError)
    \/ \E id \in IDs : GetUserByID(id, NoError)
    \/ \E id \in IDs, uu \in UserUpdates : UpdateUser(id, uu, NoError)
    \/ \E id \in IDs : DeleteUser(id, NoError)
    \/ Return
    \/ Tick

Spec == Init /\ [][Next]_vars

NextList ==
    \/ \E uc \in ListCreates : CreateUser(uc, NoError)
    \/ \E id \in 1 .. MaxSeq : DeleteUser(id, NoError)
    \/ \E page \in Pages, pageSize \in PageSizes : ListUsers(page, pageSize, NoError)
    \/ ListUsersCount(NoError, NoError)
    \/ ListUsersPage(NoError, NoError)
    \/ ListUsersCommit(NoError)
    \/ Return

SpecList == Init /\ [][NextList]_vars

\* ListUsers over the whole range of int: the first pages, the last page an int
\* can name, and a page in between
WidePages == {1, 2, 2 ^ (IntBits - 2) + 1, MaxInt}
WidePageSizes == {1, 4, MaxPageSize}

NextWide ==
    \/ \E uc \in ListCreates : CreateUser(uc, NoError)
    \/ \E page \in WidePages, pageSize \in WidePageSizes : ListUsers(page, pageSize, NoError)
    \/ ListUsersCount(NoError, NoError)
    \/ ListUsersPage(NoError, NoError)
    \/ ListUsersCommit(NoError)
    \/ Return

SpecWide == Init /\ [][NextWide]_vars

\* what a backend round trip fails with: a lost connection, a cancelled statement,
\* a unique violation on a constraint other than users_email_key
Faults == {ConnError, PqError("57014", ""), PqError(pgDuplicateCode, "users_pkey")}
Answers == Faults \cup {NoError}
\* what the backend answers to a ROLLBACK
RollbackAnswers == {NoError, ConnError}

\* the store over a backend whose round trips may fail
NextFault ==
    \/ \E uc \in UserCreates, f \in Answers : CreateUser(uc, f)
    \/ \E id \in 1 .. MaxSeq, f \in Answers : GetUserByID(id, f)
    \/ \E id \in 1 .. MaxSeq, f \in Answers :
           UpdateUser(id, [Email |-> "b@x.io", FirstName |-> "", LastName |-> ""], f)
    \/ \E id \in 1 .. MaxSeq, f \in Answers : DeleteUser(id, f)
    \/ \E page \in 0 .. 1, pageSize \in {0, 1}, f \in Answers : ListUsers(page, pageSize, f)
    \/ \E f \in Answers, r \in RollbackAnswers : ListUsersCount(f, r)
    \/ \E f \in Answers, r \in RollbackAnswers : ListUsersPage(f, r)
    \/ \E f \in Answers : ListUsersCommit(f)
    \/ Return

SpecFault == Init /\ [][NextFault]_vars

\* the requests a client sends
HttpEmails == {"", "a@x.io", "b@x.io", "c@x.io", "a.io"}
CreateNames == {"", "Al", "J2"}
UpdateNames == {"", "Al", "B", "J2"}
CreateBodies ==
    {Malformed}
        \cup {JsonObject(e, f, l) : e \in HttpEmails, f \in CreateNames, l \in CreateNames}
UpdateBodies ==
    {Malformed}
        \cup {JsonObject(e, f, l) : e \in HttpEmails, f \in UpdateNames, l \in UpdateNames}
RawIDs == {<<"0">>, <<"1">>, <<"2">>, <<"0", "1">>}
RawPages == {<<>>, <<"x">>, <<"-", "1">>, <<"0">>, <<"1">>, <<"2">>}
RawPageSizes == {<<>>, <<"0">>, <<"1">>, <<"2">>, <<"1", "0", "0">>, <<"1", "0", "1">>}
Requests ==
    {Request("POST", "/users", <<>>, b, <<>>, <<>>) : b \in CreateBodies}
        \cup {Request("GET", "/users/{id}", id, Malformed, <<>>, <<>>) : id \in RawIDs}
        \cup {Request("PUT", "/users/{id}", id, b, <<>>, <<>>) : id \in RawIDs, b \in UpdateBodies}
        \cup {Request("DELETE", "/users/{id}", id, Malformed, <<>>, <<>>) : id \in RawIDs}
        \cup {Request("GET", "/users", <<>>, Malformed, page, pageSize) :
                 page \in RawPages, pageSize \in RawPageSizes}
HttpAnswers == {NoError, ConnError}

\* the handler being served is at its call of store operation op
Calling(op) == http.pc = "calling" /\ http.call.op = op

\* the handlers over the store, one request at a time
NextHttp ==
    \/ \E req \in Requests : (req.method = "POST" => seq < MaxSeq) /\ Serve(req)
    \/ \E f \in HttpAnswers : Calling("CreateUser") /\ CreateUser(http.call.userCreate, f)
    \/ \E f \in HttpAnswers : Calling("GetUserByID") /\ GetUserByID(http.call.id, f)
    \/ \E f \in HttpAnswers :
           Calling("UpdateUser") /\ UpdateUser(http.call.id, http.call.userUpdate, f)
    \/ \E f \in HttpAnswers : Calling("DeleteUser") /\ DeleteUser(http.call.id, f)
    \/ \E f \in HttpAnswers :
           Calling("ListUsers") /\ ListUsers(http.call.page, http.call.pageSize, f)
    \/ \E f \in HttpAnswers : Calling("ListUsers") /\ ListUsersCount(f, NoError)
    \/ \E f \in HttpAnswers : Calling("ListUsers") /\ ListUsersPage(f, NoError)
    \/ \E f \in HttpAnswers : Calling("ListUsers") /\ ListUsersCommit(f)
    \/ Respond
    \/ Done

SpecHttp == Init /\ [][NextHttp]_vars

\* the process before the store is constructed
InitStart ==
    /\ users = {}
    /\ seq = 0
    /\ now = 0
    /\ tx = IdleTx
    /\ last = NoCall
    /\ issued = {}
    /\ deleted = {}
    /\ http = NoExchange
    /\ db = NoDB
    /\ main = NoMain

NextStart ==
    \/ \E cfg \in PostgresConfigs, openErr \in BOOLEAN, pingErr \in BOOLEAN, closeErr \in BOOLEAN :
           NewPostgresStore(cfg, openErr, pingErr, closeErr) /\ UNCHANGED main
    \/ Close /\ UNCHANGED main

SpecStart == InitStart /\ [][NextStart]_vars

\* the API server process: func main from its first statement
InitMain ==
    /\ users \in {{}, {[id |-> 1, email |-> "a@x.io", first_name |-> "Al", last_name |-> "Bo",
                        created_at |-> 0, updated_at |-> 0]}}
    /\ seq = Cardinality(users)
    /\ now = 0
    /\ tx = IdleTx
    /\ last = NoCall
    /\ issued = {}
    /\ deleted = {}
    /\ http = NoExchange
    /\ db = NoDB
    /\ main = "start"

\* what database/sql answers to a call on handle: after Close, "database is closed"
Backend(handle) == IF handle.state = "open" THEN HttpAnswers ELSE {SqlErrDBClosed}

\* func main and the handlers it serves.  A ListUsers call goes past BeginTx only
\* on an open handle.
NextMain ==
    \/ \E cfg \in PostgresConfigs, openErr \in BOOLEAN, pingErr \in BOOLEAN, closeErr \in BOOLEAN :
           MainNewPostgresStore(cfg, openErr, pingErr, closeErr)
    \/ MainClose
    \/ MainListenAndServe
    \/ \E req \in Requests : main = "serving" /\ Serve(req)
    \/ \E f \in Backend(db.handle) :
           Calling("CreateUser") /\ CreateUser(http.call.userCreate, f)
    \/ \E f \in Backend(db.handle) : Calling("GetUserByID") /\ GetUserByID(http.call.id, f)
    \/ \E f \in Backend(db.handle) :
           Calling("UpdateUser") /\ UpdateUser(http.call.id, http.call.userUpdate, f)
    \/ \E f \in Backend(db.handle) : Calling("DeleteUser") /\ DeleteUser(http.call.id, f)
    \/ \E f \in Backend(db.handle) :
           Calling("ListUsers") /\ ListUsers(http.call.page, http.call.pageSize, f)
    \/ Respond
    \/ Done
    \/ MainShutdown

SpecMain == InitMain /\ [][NextMain]_vars

---------------------------------------------------------------------------
(* Properties *)

\* the step in which a call of op returns
Returns(op) == last = NoCall /\ last'.call.op = op

\* the domain.User that row r is read as
UserOf(r) ==
    [ID |-> r.id, Email |-> r.email, FirstName |-> r.first_name, LastName |-> r.last_name,
     CreatedAt |-> r.created_at, UpdatedAt |-> r.updated_at]

\* C1: in every reachable state no two stored users have the same email.
C1_EmailUnique ==
    \A r1 \in users, r2 \in users : r1.email = r2.email => r1 = r2

\* two users are stored and a call that would have broken uniqueness was rejected
C1_Witness ==
    /\ Cardinality(users) = 2
    /\ last.call.op = "UpdateUser"
    /\ last.ret.err = ErrDuplicateEmail

\* C2: CreateUser with an email a stored user already has returns
\* DuplicateEmail and identity 0 and leaves the stored users as they were.
C2_DuplicateCreate ==
    [][(/\ Returns("CreateUser")
        /\ \E r \in users : r.email = last'.call.userCreate.Email)
       => (/\ last'.ret.err = ErrDuplicateEmail
           /\ last'.ret.retID = 0
           /\ users' = users)]_vars

C2_Witness ==
    /\ last.call.op = "CreateUser"
    /\ last.ret.err = ErrDuplicateEmail
    /\ \E r \in users : r.email = last.call.userCreate.Email

\* C3: a successful CreateUser returns a positive identity that no earlier
\* successful CreateUser returned, whether or not that user was deleted since.
C3_FreshIdentity ==
    [][(Returns("CreateUser") /\ last'.ret.err = Nil)
       => (last'.ret.retID > 0 /\ last'.ret.retID \notin issued)]_vars

\* a user is created after an earlier one was created and deleted
C3_Witness ==
    /\ last.call.op = "CreateUser"
    /\ last.ret.err = Nil
    /\ deleted # {}
    /\ Cardinality(issued) >= 2

\* C4: with id <= 0, GetUserByID, UpdateUser and DeleteUser return InvalidID,
\* send no statement to the backend and leave the stored users unchanged.
C4_InvalidID ==
    [][(/\ last = NoCall
        /\ last'.call.op \in {"GetUserByID", "UpdateUser", "DeleteUser"}
        /\ last'.call.id <= 0)
       => (/\ last'.ret.err = ErrInvalidID
           /\ last'.ret.stmts = 0
           /\ last'.ret.user = NilUser
           /\ users' = users)]_vars

C4_Witness ==
    /\ last.call.op = "DeleteUser"
    /\ last.call.id = 0
    /\ last.ret.err = ErrInvalidID
    /\ users # {}

\* C5: with id > 0, GetUserByID returns the stored user of that identity with
\* all six fields as stored, and NotFound with a nil user when there is none.
C5_GetUserByID ==
    [][(Returns("GetUserByID") /\ last'.call.id > 0)
       => IF \E r \in users : r.id = last'.call.id
          THEN /\ last'.ret.err = Nil
               /\ \E r \in users : r.id = last'.call.id /\ last'.ret.user = <<UserOf(r)>>
          ELSE /\ last'.ret.err = ErrUserNotFound
               /\ last'.ret.user = NilUser]_vars

\* a user that was updated after its creation is returned
C5_Witness ==
    /\ last.call.op = "GetUserByID"
    /\ last.ret.err = Nil
    /\ last.ret.user # NilUser
    /\ \E r \in users : /\ last.ret.user = <<UserOf(r)>>
                        /\ r.updated_at > r.created_at
                        /\ r.first_name = "Bo"

\* C6: UpdateUser with an update that supplies no field succeeds and sets
\* updated_at to the current time when the target identity is stored, and
\* returns NotFound when it is not.
C6_EmptyUpdate ==
    [][(/\ Returns("UpdateUser")
        /\ last'.call.userUpdate = NoUpdate
        /\ last'.call.id > 0)
       => IF \E r \in users : r.id = last'.call.id
          THEN /\ last'.ret.err = Nil
               /\ \E r \in users' : r.id = last'.call.id /\ r.updated_at = now
          ELSE /\ last'.ret.err = ErrUserNotFound
               /\ users' = users]_vars

\* an update without fields has moved updated_at past created_at
C6_Witness ==
    /\ last.call.op = "UpdateUser"
    /\ last.call.userUpdate = NoUpdate
    /\ last.ret.err = Nil
    /\ \E r \in users : /\ r.id = last.call.id
                        /\ r.updated_at = now
                        /\ r.updated_at > r.created_at
                        /\ r.first_name = "Al"

\* C7: DeleteUser of a stored identity succeeds and removes the user; from
\* then on GetUserByID and DeleteUser of that identity return NotFound.
C7_DeleteRoundTrip ==
    [][/\ (/\ Returns("DeleteUser")
           /\ \E r \in users : r.id = last'.call.id)
          => (/\ last'.ret.err = Nil
              /\ ~ \E r \in users' : r.id = last'.call.id)
       /\ (Returns("GetUserByID") /\ last'.call.id \in deleted)
          => (last'.ret.err = ErrUserNotFound /\ last'.ret.user = NilUser)
       /\ (Returns("DeleteUser") /\ last'.call.id \in deleted)
          => (last'.ret.err = ErrUserNotFound /\ users' = users)]_vars

\* a second DeleteUser of an identity, after another user was created in between
C7_Witness ==
    /\ last.call.op = "DeleteUser"
    /\ last.call.id \in deleted
    /\ last.ret.err = ErrUserNotFound
    /\ \E r \in users : r.id > last.call.id

\* C8: ListUsers with page 0 returns InvalidPage, a nil slice and count 0
\* without backend access, whatever the page size.
C8_InvalidPage ==
    [][(Returns("ListUsers") /\ last'.call.page = 0)
       => (/\ last'.ret.err = ErrInvalidPage
           /\ last'.ret.users = NilSlice
           /\ last'.ret.count = 0
           /\ last'.ret.stmts = 0)]_vars

\* page 0 together with a page size that is invalid too
C8_Witness ==
    /\ last.call.op = "ListUsers"
    /\ last.call.page = 0
    /\ last.call.pageSize = MaxPageSize + 1
    /\ last.ret.err = ErrInvalidPage

\* C9 as stated: ListUsers with page size 0 or 101 returns InvalidPageSize
\* for every page, pages below 1 included.
C9_AnyPage ==
    [][(Returns("ListUsers") /\ last'.call.pageSize \in {0, MaxPageSize + 1})
       => (/\ last'.ret.err = ErrInvalidPageSize
           /\ last'.ret.users = NilSlice
           /\ last'.ret.count = 0
           /\ last'.ret.stmts = 0)]_vars

\* C9: ListUsers with page size 0 or 101 and a page of at least 1 returns
\* InvalidPageSize, a nil slice and count 0 without backend access.
C9_InvalidPageSize ==
    [][(/\ Returns("ListUsers")
        /\ last'.call.pageSize \in {0, MaxPageSize + 1}
        /\ last'.call.page >= 1)
       => (/\ last'.ret.err = ErrInvalidPageSize
           /\ last'.ret.users = NilSlice
           /\ last'.ret.count = 0
           /\ last'.ret.stmts = 0)]_vars

C9_Witness ==
    /\ last.call.op = "ListUsers"
    /\ last.call.page = MaxPage
    /\ last.call.pageSize = MaxPageSize + 1
    /\ last.ret.err = ErrInvalidPageSize
    /\ users # {}

Max(a, b) == IF a >= b THEN a ELSE b

C11_Consistent ==
    [][(Returns("ListUsers") /\ last'.ret.err = Nil)
       => LET skip == (last'.call.page - 1) * last'.call.pageSize
          IN  Len(last'.ret.users.elems)
                  = Min(last'.call.pageSize, Max(0, last'.ret.count - skip))]_vars

\* the backend answers that failed in the call that returned, the deferred rollback aside
FailedAnswers(returned) ==
    {returned.ret.trace[i].err : i \in {j \in DOMAIN returned.ret.trace :
                                           /\ returned.ret.trace[j].call # "Rollback"
                                           /\ returned.ret.trace[j].err # NoError}}

\* C12: a raw backend error is mapped in this order: a unique violation (23505)
\* on the email constraint gives DuplicateEmail; otherwise a 'no rows' error
\* gives NotFound; otherwise, a unique violation on another constraint
\* included, a DatabaseInternal error that wraps the raw error.
C12_HandleError ==
    \A e \in FailedAnswers(last) :
        IF e.type = "pq.Error" /\ e.code = "23505" /\ e.constraint = "users_email_key"
        THEN last.ret.err = ErrDuplicateEmail
        ELSE IF e.type = "sql.ErrNoRows"
        THEN last.ret.err = ErrUserNotFound
        ELSE last.ret.err.kind = "ErrDatabaseInternal" /\ last.ret.err.cause = e

\* a unique violation on the primary key came back as DatabaseInternal around it
C12_Witness ==
    /\ PqError("23505", "users_pkey") \in FailedAnswers(last)
    /\ last.ret.err = ErrDatabaseInternal(PqError("23505", "users_pkey"))

\* the handler takes the result of its store call and writes the response
Responds == http.pc = "calling" /\ http'.pc = "responded"
IsList(req) == req.method = "GET" /\ req.route = "/users"
IsByID(req) == req.route = "/users/{id}"

\* C13: CreateUser DuplicateEmail gives 409 and success 201 with the new id;
\* GetUser, UpdateUser and DeleteUser NotFound give 404; UpdateUser
\* DuplicateEmail gives 409; any other store error gives 500; DeleteUser
\* success gives 204; GetUser and UpdateUser success give 200.
C13_Statuses ==
    [][Responds
       => LET op == last.call.op
              e == last.ret.err
              status == http'.resp.status
          IN  /\ op = "CreateUser"
                   => /\ e = ErrDuplicateEmail => status = 409
                      /\ e = Nil => status = 201 /\ http'.resp.id = last.ret.retID
                      /\ e \notin {Nil, ErrDuplicateEmail} => status = 500
              /\ op = "GetUserByID"
                   => /\ e = ErrUserNotFound => status = 404
                      /\ e = Nil => status = 200
                      /\ e \notin {Nil, ErrUserNotFound} => status = 500
              /\ op = "UpdateUser"
                   => /\ e = ErrUserNotFound => status = 404
                      /\ e = ErrDuplicateEmail => status = 409
                      /\ e = Nil => status = 200
                      /\ e \notin {Nil, ErrUserNotFound, ErrDuplicateEmail} => status = 500
              /\ op = "DeleteUser"
                   => /\ e = ErrUserNotFound => status = 404
                      /\ e = Nil => status = 204
                      /\ e \notin {Nil, ErrUserNotFound} => status = 500
              /\ op = "ListUsers" => (e # Nil => status = 500)]_vars

\* an update to an email that another user holds was answered with 409
C13_Witness ==
    /\ http.pc = "responded"
    /\ http.req.method = "PUT"
    /\ http.call.userUpdate.Email # ""
    /\ http.resp.status = 409

\* a page parameter that is a number below 1, a page_size parameter that is a
\* number below 1 or above 100
PageInvalid(raw) == ~ParseInt(raw).err /\ ParseInt(raw).val < 1
PageSizeInvalid(raw) ==
    ~ParseInt(raw).err /\ (ParseInt(raw).val < 1 \/ ParseInt(raw).val > 100)

\* C14 as stated: a list request whose page is < 1 or whose page_size is < 1
\* or > 100 is answered with 400, and so is a request for /users/{id} with id 0.
C14_BadRequest ==
    http.pc = "responded"
        => /\ (IsList(http.req) /\ (\/ PageInvalid(http.req.page)
                                    \/ PageSizeInvalid(http.req.pageSize)))
                 => http.resp.status = 400
           /\ (IsByID(http.req) /\ ~ParseInt(http.req.id).err /\ ParseInt(http.req.id).val = 0)
                 => http.resp.status = 400

\* C14: a list request whose page is < 1 is served as page 1 and one whose
\* page_size is < 1 or > 100 as page_size 10, and is never answered with 400;
\* a request for /users/{id} with id 0 is answered with 400 without a store call.
C14_Defaulted ==
    /\ (http.pc # "idle" /\ IsList(http.req))
          => /\ PageInvalid(http.req.page)
                   => http.call.op = "ListUsers" /\ http.call.page = 1
             /\ PageSizeInvalid(http.req.pageSize)
                   => http.call.op = "ListUsers" /\ http.call.pageSize = 10
             /\ http.resp.status # 400
    /\ (http.pc # "idle" /\ IsByID(http.req)
            /\ ~ParseInt(http.req.id).err /\ ParseInt(http.req.id).val = 0)
          => /\ http.pc = "responded"
             /\ http.resp.status = 400
             /\ http.call = NoStoreCall

\* page=0 and page_size=101 were answered with 200 for page 1 of size 10
C14_Witness ==
    /\ http.pc = "responded"
    /\ IsList(http.req)
    /\ http.req.page = <<"0">>
    /\ http.req.pageSize = <<"1", "0", "1">>
    /\ http.resp.status = 200
    /\ http.resp.list[1].Page = 1
    /\ http.resp.list[1].PageSize = 10

\* C15: for a list request with valid page and page_size the response echoes
\* both, reports total_count as the store returned it and reports
\* total_pages = max(1, total_count div page_size).
C15_TotalPages ==
    [][(/\ Responds
        /\ IsList(http.req)
        /\ ~ParseInt(http.req.page).err /\ ~PageInvalid(http.req.page)
        /\ ~ParseInt(http.req.pageSize).err /\ ~PageSizeInvalid(http.req.pageSize)
        /\ last.ret.err = Nil)
       => /\ http'.resp.status = 200
          /\ LET list == http'.resp.list[1]
             IN  /\ list.Page = ParseInt(http.req.page).val
                 /\ list.PageSize = ParseInt(http.req.pageSize).val
                 /\ list.TotalCount = last.ret.count
                 /\ list.TotalPages = Max(1, last.ret.count \div ParseInt(http.req.pageSize).val)]_vars

\* three users at page_size 2 are reported as one page
C15_Witness ==
    /\ http.pc = "responded"
    /\ IsList(http.req)
    /\ http.req.page = <<"1">>
    /\ http.req.pageSize = <<"2">>
    /\ http.resp.status = 200
    /\ http.resp.list[1].TotalCount = 3
    /\ http.resp.list[1].TotalPages = 1

\* the body a create or update handler gave to Validate
Validated(method) == http.pc # "idle" /\ http.req.method = method /\ http.validated
HasNonLetter(str) == \E i \in DOMAIN Runes(str) : Runes(str)[i] \notin Letters

\* C16 as stated: UserCreate.Validate returns an error if and only if the email
\* is empty or not a well-formed address, or the first name is empty, or the
\* last name is empty, whatever characters the names contain.
C16_CreateValidate ==
    Validated("POST")
        => (http.verr # {}
              <=> \/ http.decoded.Email = ""
                  \/ ~isEmail(http.decoded.Email)
                  \/ http.decoded.FirstName = ""
                  \/ http.decoded.LastName = "")

\* C16: UserCreate.Validate returns an error if and only if the email is empty
\* or not a well-formed address, or the first name or the last name is empty
\* or contains a character that is not a letter.
C16_CreateValidateAlpha ==
    Validated("POST")
        => (http.verr # {}
              <=> \/ http.decoded.Email = ""
                  \/ ~isEmail(http.decoded.Email)
                  \/ http.decoded.FirstName = "" \/ HasNonLetter(http.decoded.FirstName)
                  \/ http.decoded.LastName = "" \/ HasNonLetter(http.decoded.LastName))

\* a create request with a well-formed email and the names J2 and Al was rejected
C16_Witness ==
    /\ Validated("POST")
    /\ isEmail(http.decoded.Email)
    /\ http.decoded.FirstName = "J2"
    /\ http.decoded.LastName = "Al"
    /\ http.verr = {"FirstName"}
    /\ http.resp.status = 400

\* C17 as stated: UserUpdate.Validate fails only if a supplied email is not a
\* well-formed address or a supplied name is shorter than 2 characters.
C17_UpdateValidate ==
    Validated("PUT")
        => (http.verr # {}
              => \/ http.decoded.Email # "" /\ ~isEmail(http.decoded.Email)
                 \/ \E f \in {"FirstName", "LastName"} :
                        http.decoded[f] # "" /\ Len(Runes(http.decoded[f])) < 2)

\* C17: UserUpdate.Validate fails if and only if a supplied email is not a
\* well-formed address or a supplied name is shorter than 2 characters or
\* contains a character that is not a letter; an update with all fields
\* absent is valid.
C17_UpdateValidateAlpha ==
    Validated("PUT")
        => (http.verr # {}
              <=> \/ http.decoded.Email # "" /\ ~isEmail(http.decoded.Email)
                  \/ \E f \in {"FirstName", "LastName"} :
                         /\ http.decoded[f] # ""
                         /\ Len(Runes(http.decoded[f])) < 2 \/ HasNonLetter(http.decoded[f]))

\* an update that supplies only the name J2 was rejected, and so was one with the name B
C17_Witness ==
    /\ Validated("PUT")
    /\ http.decoded.Email = ""
    /\ http.decoded.FirstName \in {"J2", "B"}
    /\ http.decoded.LastName = ""
    /\ http.verr = {"FirstName"}
    /\ http.resp.status = 400

\* C18: when the connectivity probe fails, the handle that was opened is
\* closed before NewPostgresStore returns, the constructor returns an error and
\* a nil store and no open handle remains; when the probe succeeds the
\* returned store holds an open handle.
C18_ProbeFailureCloses ==
    [][(db = NoDB /\ db' # db)
       => /\ db'.err = "failed to ping database"
                => db'.handle.state = "closed" /\ db'.store = "nil"
          /\ db'.err # "nil" => db'.store = "nil" /\ db'.handle.state # "open"
          /\ db'.err = "nil" => db'.store = "store" /\ db'.handle.state = "open"]_vars

\* the probe failed and the handle is closed, although Close itself reported an error
C18_Witness ==
    /\ db.err = "failed to ping database"
    /\ db.store = "nil"
    /\ db.handle.state = "closed"
    /\ db.warns = 1

\* C19: after NewPostgresStore succeeds, the pool's maximum open connections,
\* maximum idle connections, connection max lifetime and connection max idle
\* time equal the values of the PostgresConfig given to the constructor.
C19_PoolConfigured ==
    db.store = "store" => db.handle.pool = db.cfg

\* C20: withTx returns success only after the commit has succeeded; if BeginTx,
\* the body or the commit fails it returns an error; once the transaction has
\* begun, a rollback is attempted on every exit path.
C20_WithTx ==
    (last.call.op = "ListUsers" /\ last.ret.trace # <<>>)
        => LET trace == last.ret.trace
               begun == trace[1] = Answer("BeginTx", NoError)
               committed == \E i \in DOMAIN trace : trace[i] = Answer("Commit", NoError)
               rolledBack == trace[Len(trace)].call = "Rollback"
           IN  /\ last.ret.err = Nil => committed
               /\ FailedAnswers(last) # {} => last.ret.err # Nil
               /\ begun => rolledBack
               /\ ~begun => ~rolledBack /\ last.ret.err # Nil

\* a ListUsers whose transaction committed returned success after the deferred rollback ran
C20_Witness ==
    /\ last.call.op = "ListUsers"
    /\ last.ret.err = Nil
    /\ Len(last.ret.trace) = 5
    /\ last.ret.trace[4] = Answer("Commit", NoError)
    /\ last.ret.trace[5].call = "Rollback"

\* C21: the deferred rollback of withTx does nothing once the commit has
\* succeeded: a ListUsers call whose transaction commits writes no error entry
\* to the log.
C21_QuietCommit ==
    (last.call.op = "ListUsers" /\ last.ret.err = Nil) => last.ret.logs = <<>>

\* C22: a call that returns a DatabaseInternal error has written exactly one
\* error log entry for that error before returning, and a call that returns
\* InvalidID, InvalidPage, InvalidPageSize, NotFound or DuplicateEmail has
\* written no error log entry.  (The entry for the error returned is the one
\* handleError writes; a failed rollback has an entry of its own.)
C22_LoggedOnce ==
    /\ last.ret.err.kind = "ErrDatabaseInternal"
          => Cardinality({i \in DOMAIN last.ret.logs :
                             last.ret.logs[i] = LogEntry("handleError", last.ret.err.cause)}) = 1
    /\ last.ret.err \in {ErrInvalidID, ErrInvalidPage, ErrInvalidPageSize,
                         ErrUserNotFound, ErrDuplicateEmail}
          => last.ret.logs = <<>>

\* a ListUsers whose page query lost its connection and whose rollback failed as
\* well logged the query error once, next to the entry for the rollback
C22_Witness ==
    /\ last.call.op = "ListUsers"
    /\ last.ret.err = ErrDatabaseInternal(PqError("57014", ""))
    /\ last.ret.logs = <<LogEntry("handleError", PqError("57014", "")),
                         LogEntry("withTx", ConnError)>>

\* the columns a UserUpdate supplies, in the order email, first name, last name
Supplied(u) ==
    (IF u.Email # "" THEN <<[col |-> "email", s |-> u.Email]>> ELSE <<>>)
    \o (IF u.FirstName # "" THEN <<[col |-> "first_name", s |-> u.FirstName]>> ELSE <<>>)
    \o (IF u.LastName # "" THEN <<[col |-> "last_name", s |-> u.LastName]>> ELSE <<>>)

\* C23: a successful UpdateUser(id, u) changes only the target row: each of
\* email, first name and last name that u supplies takes the supplied value,
\* each omitted field keeps its old value, id and created_at are unchanged,
\* updated_at is set to the current time, and every other stored user is
\* unchanged.
C23_UpdateFrame ==
    [][(Returns("UpdateUser") /\ last'.ret.err = Nil)
       => LET id == last'.call.id
              u == last'.call.userUpdate
          IN  \E old \in users, new \in users' :
                  /\ old.id = id
                  /\ new.id = id
                  /\ users' \ {new} = users \ {old}
                  /\ new.email = (IF u.Email # "" THEN u.Email ELSE old.email)
                  /\ new.first_name = (IF u.FirstName # "" THEN u.FirstName ELSE old.first_name)
                  /\ new.last_name = (IF u.LastName # "" THEN u.LastName ELSE old.last_name)
                  /\ new.created_at = old.created_at
                  /\ new.updated_at = now]_vars

\* an update of the first name alone has succeeded while another user is stored
C23_Witness ==
    /\ last.call.op = "UpdateUser"
    /\ last.ret.err = Nil
    /\ last.call.userUpdate.Email = ""
    /\ last.call.userUpdate.FirstName # ""
    /\ last.call.userUpdate.LastName = ""
    /\ \E r \in users : /\ r.id = last.call.id
                        /\ r.first_name = last.call.userUpdate.FirstName
                        /\ r.email # ""
                        /\ r.last_name # ""
                        /\ r.updated_at > r.created_at
    /\ \E r \in users : r.id # last.call.id

\* C24: for every UserUpdate and id, buildUpdateQuery emits SET clauses only for
\* the supplied fields in the order email, first name, last name, followed
\* always by updated_at = NOW(); the placeholders are numbered consecutively
\* from $1 in that order, the id is bound to the last placeholder, and the
\* argument list has (number of supplied fields + 1) entries in the same order.
C24_QueryShape ==
    last.call.op = "UpdateUser"
        => LET sup == Supplied(last.call.userUpdate)
               n == Len(sup)
               q == buildUpdateQuery(last.call.userUpdate, last.call.id)
           IN  /\ Len(q.updates) = n + 1
               /\ \A k \in 1 .. n : /\ q.updates[k] = SetArg(sup[k].col, k)
                                    /\ q.args[k] = StrArg(sup[k].s)
               /\ q.updates[n + 1] = SetNow("updated_at")
               /\ q.whereID = n + 1
               /\ Len(q.args) = n + 1
               /\ q.args[n + 1] = IntArg(last.call.id)

\* an update supplying the two names but no email was called
C24_Witness ==
    /\ last.call.op = "UpdateUser"
    /\ last.call.userUpdate.Email = ""
    /\ last.call.userUpdate.FirstName # ""
    /\ last.call.userUpdate.LastName # ""
    /\ buildUpdateQuery(last.call.userUpdate, last.call.id).whereID = 3

\* C25: UpdateUser(id, u) of a stored user where u supplies an email held by a
\* different stored user returns DuplicateEmail, and the target row (its other
\* supplied fields and updated_at included) and all other rows are left as
\* before the call.
C25_DuplicateUpdate ==
    [][(/\ Returns("UpdateUser")
        /\ \E t \in users : t.id = last'.call.id
        /\ last'.call.userUpdate.Email # ""
        /\ \E r \in users : /\ r.id # last'.call.id
                            /\ r.email = last'.call.userUpdate.Email)
       => (/\ last'.ret.err = ErrDuplicateEmail
           /\ users' = users)]_vars

\* an update that also supplied a first name was rejected for its email
C25_Witness ==
    /\ last.call.op = "UpdateUser"
    /\ last.ret.err = ErrDuplicateEmail
    /\ last.call.userUpdate.FirstName # ""
    /\ \E r \in users : r.id # last.call.id /\ r.email = last.call.userUpdate.Email
    /\ \E r \in users : /\ r.id = last.call.id
                        /\ r.first_name # last.call.userUpdate.FirstName
                        /\ r.updated_at = r.created_at
                        /\ now > r.updated_at

\* C26: whenever a store operation returns an error, its value results are
\* zero: CreateUser returns identity 0, GetUserByID a nil user, ListUsers a nil
\* slice and total count 0, also when the count query had succeeded and a
\* later step of the transaction failed.
C26_ZeroOnError ==
    (last # NoCall /\ last.ret.err # Nil)
        => /\ last.ret.retID = 0
           /\ last.ret.user = NilUser
           /\ last.ret.users = NilSlice
           /\ last.ret.count = 0

\* ListUsers failed at the page query after counting a non-empty table
C26_Witness ==
    /\ last.call.op = "ListUsers"
    /\ last.ret.err # Nil
    /\ Len(last.ret.trace) >= 3
    /\ last.ret.trace[2] = Answer("QueryRow", NoError)
    /\ last.ret.trace[3].call = "Query"
    /\ last.ret.trace[3].err # NoError
    /\ users # {}
    /\ last.ret.count = 0

\* C28 as stated: the total_pages reported by the list handler covers every
\* record: total_pages * page_size >= total_count.
C28_PagesCover ==
    (http.pc = "responded" /\ IsList(http.req) /\ http.resp.status = 200)
        => LET list == http.resp.list[1]
           IN  list.TotalPages * list.PageSize >= list.TotalCount

\* C29: the handlers call the store only with validated input: CreateUser and
\* UpdateUser with a body that passed Validate, GetUserByID, UpdateUser and
\* DeleteUser with id > 0, ListUsers with page >= 1 and 1 <= pageSize <= 100
\* (an absent, unparsable or out-of-range page becomes 1 and page_size 10);
\* no request makes the store return InvalidID, InvalidPage or InvalidPageSize.
C29_ValidatedCalls ==
    [][/\ http'.pc = "calling"
          => LET req == http'.req
                 call == http'.call
             IN  /\ call.op = "CreateUser"
                       => /\ ~Decode(req.body).err
                          /\ call.userCreate = Decode(req.body).val
                          /\ UserCreateValidate(call.userCreate) = {}
                 /\ call.op = "UpdateUser"
                       => /\ ~Decode(req.body).err
                          /\ call.userUpdate = Decode(req.body).val
                          /\ UserUpdateValidate(call.userUpdate) = {}
                 /\ call.op \in {"GetUserByID", "UpdateUser", "DeleteUser"}
                       => /\ call.id > 0
                          /\ ~ParseInt(req.id).err
                          /\ call.id = ParseInt(req.id).val
                 /\ call.op = "ListUsers"
                       => /\ call.page >= 1
                          /\ call.pageSize >= 1
                          /\ call.pageSize <= 100
                          /\ call.page = (IF ParseInt(req.page).err \/ PageInvalid(req.page)
                                          THEN 1 ELSE ParseInt(req.page).val)
                          /\ call.pageSize = (IF \/ ParseInt(req.pageSize).err
                                                 \/ PageSizeInvalid(req.pageSize)
                                              THEN 10 ELSE ParseInt(req.pageSize).val)
       /\ Responds
          => last.ret.err \notin {ErrInvalidID, ErrInvalidPage, ErrInvalidPageSize}]_vars

\* the store has listed page 1 of size 10 for a request with page=x and page_size=101
C29_Witness ==
    /\ http.pc = "calling"
    /\ http.req.page = <<"x">>
    /\ http.req.pageSize = <<"1", "0", "1">>
    /\ last.call.op = "ListUsers"
    /\ last.call.page = 1
    /\ last.call.pageSize = 10
    /\ last.ret.err = Nil

\* C27 as stated: in the API server process the store is open whenever a
\* request handler calls it: no handler invokes a store operation on a closed
\* store.
C27_StoreOpen ==
    (main # NoMain /\ http.pc = "calling") => db.handle.state = "open"

\* C30 as stated: for every page >= 1 and pageSize in 1..100 that ListUsers
\* accepts, the offset passed to the page query equals the mathematical value
\* (page-1)*pageSize and is never negative.
C30_OffsetExact ==
    tx.pc = "counted"
        => /\ offset(tx.page, tx.pageSize) = (tx.page - 1) * tx.pageSize
           /\ offset(tx.page, tx.pageSize) >= 0

====
